---- MODULE Spec2Model ----
(***************************************************************************)
(* Model of the prompt-versioning, feedback and conversation-memory core   *)
(* of tt-blueelephant:                                                     *)
(*   src/src/agent/prompt_manager.py        PromptManager                  *)
(*   src/src/feedback/feedback_processor.py FeedbackProcessor              *)
(*   src/src/agent/conversation_manager.py  ConversationManager            *)
(*   src/app.py                             the callers (improvement pass) *)
(*                                                                         *)
(* Texts are sequences of lines; a line is a string.  Timestamps are left  *)
(* out (no operation reads them back).  A JSON file on disk is a record    *)
(* with a kind: "absent" (never written), "json" (a complete dump, with    *)
(* its data) or "torn" (truncated by open(..., 'w') and not, or not        *)
(* completely, rewritten: json.load raises on it).                         *)
(***************************************************************************)
EXTENDS Integers, Sequences, FiniteSets, TLC

\* ------------------------------------------------------------------ bounds
MaxVersions == 3        \* prompt versions kept in a run
MaxFeedbackCount == 2   \* increment_feedback_count calls in a run
MaxFeedbacks == 3       \* feedback entries added in a run
MaxWindow == 3          \* largest recent_count passed to analyze_feedbacks
MaxPasses == 2          \* improvement passes in a run
MaxSessions == 2        \* conversation sessions started in a run
MaxTurns == 2           \* turns appended to one session
MaxCrashes == 1         \* process crashes in a run

\* ------------------------------------------------------------------ state
VARIABLES
    up,                 \* TRUE while the process (and its objects) is alive
    prompts_history,    \* PromptManager.prompts_history
    prompts_file,       \* data/prompts_history.json
    appended,           \* the texts passed to update_prompt calls that
                        \* returned, in call order
    feedbacks,          \* FeedbackProcessor.feedbacks
    feedbacks_file,     \* data/feedbacks.json
    passes,             \* number of improvement passes run so far
    sent,               \* id -> number of passes that sent the entry to the model
    consumed,           \* id -> number of those passes whose call succeeded
    adds,               \* number of add_feedback calls that returned
    sessions,           \* ConversationManager.sessions
    current_session_id, \* ConversationManager.current_session_id
    current_session_index, \* ConversationManager.current_session_index (from 0)
    conversations_file, \* data/conversations.json
    uuids,              \* number of uuid4() values drawn so far
    written,            \* the session started last on this object and the
                        \* turns passed to add_message for it since, while
                        \* no delete_session or new construction intervened
    crashes,            \* number of crashes so far
    messages,           \* len(st.session_state.messages) of the browser
                        \* session being served; None before initialize_session
    other,              \* the in-memory state of a second browser session
    last                \* the last operation: its name, inputs and result

pvars == <<prompts_history, prompts_file, appended>>
fvars == <<feedbacks, feedbacks_file>>
avars == <<passes, sent, consumed, adds>>
cvars == <<sessions, current_session_id, current_session_index,
           conversations_file, uuids, written>>
appvars == <<messages, other>>
vars == <<up, prompts_history, prompts_file, appended, feedbacks, feedbacks_file,
          passes, sent, consumed, adds, sessions, current_session_id,
          current_session_index, conversations_file, uuids, written, crashes,
          messages, other, last>>

\* ------------------------------------------------------------------ files
NoFile == [kind |-> "absent"]
Torn == [kind |-> "torn"]
Json(data) == [kind |-> "json", data |-> data]

\* None, as held by current_session_id and current_session_index (which
\* otherwise hold numbers from 1 and from 0)
None == -1

\* ------------------------------------------------------------------ PromptManager
DEFAULT_PROMPT == <<"p0">>

default_prompt ==
    [version |-> 1, prompt |-> DEFAULT_PROMPT, feedback_count |-> 0,
     improvements |-> <<"Prompt inicial padrao">>]

\* _load_prompts: the list read from the file; [] when json.load raises;
\* the list the object was created with ([]) when the file does not exist
load_prompts(file) ==
    IF file.kind = "json" THEN file.data ELSE <<>>

\* _save_prompts, when the write completes
save_prompts(history) == Json(history)

\* what a save that the process does not survive can leave on disk: the old
\* file (not yet opened), a torn file (opened with 'w', dump not finished)
\* or the new dump (finished, call not yet returned)
interrupted_save(old_file, new_file) == {old_file, Torn, new_file}

\* update_prompt: the version appended
new_version_bug(history) == Len(history)
new_version(history) == Len(history) + 1

prompt_data(history, new_prompt, improvements) ==
    [version |-> new_version(history), prompt |-> new_prompt,
     feedback_count |-> 0, improvements |-> improvements]

updated_history(history, new_prompt, improvements) ==
    Append(history, prompt_data(history, new_prompt, improvements))

\* get_current_prompt, on a non-empty history (a constructed PromptManager
\* never holds an empty one, so the default is not initialised here)
get_current_prompt(history) == history[Len(history)].prompt

\* get_current_version
get_current_version(history) == Len(history)

\* what get_prompt_version returns: the prompt of an entry, or None
FoundPrompt(prompt) == [found |-> TRUE, prompt |-> prompt]
NotFound == [found |-> FALSE]

get_prompt_version_by_position(history, version) ==
    IF version \in 0..(Len(history) - 1)
    THEN FoundPrompt(history[version + 1].prompt)
    ELSE NotFound

\* get_prompt_version: the first entry whose "version" is the one asked for
get_prompt_version(history, version) ==
    IF \E i \in 1..Len(history) : history[i].version = version
    THEN FoundPrompt(
             history[CHOOSE i \in 1..Len(history) :
                        /\ history[i].version = version
                        /\ \A j \in 1..(i - 1) : history[j].version # version
                    ].prompt)
    ELSE NotFound

\* increment_feedback_count: the history after it
incremented_first(history) ==
    IF history # <<>>
    THEN [history EXCEPT ![1].feedback_count = @ + 1]
    ELSE history

incremented_history(history) ==
    IF history # <<>>
    THEN [history EXCEPT ![Len(history)].feedback_count = @ + 1]
    ELSE history

\* __init__: the history after construction on a data directory
constructed_with_default(file) == <<default_prompt>> \o load_prompts(file)

constructed_history(file) ==
    IF load_prompts(file) = <<>> THEN <<default_prompt>> ELSE load_prompts(file)

constructed_file(file) ==
    IF load_prompts(file) = <<>> THEN save_prompts(<<default_prompt>>) ELSE file

\* inputs of update_prompt when it is called directly
PromptInputs == {<<"p0">>, <<"p1">>, <<"p1", "p0">>}
ImprovementInputs == {<<>>, <<"a">>}

NoOp == [op |-> "none"]

\* PromptManager(data_dir): a (re)start of the process, or a second
\* construction on the same directory while it runs
PromptManagerInit ==
    /\ prompts_history' = constructed_history(prompts_file)
    /\ prompts_file' = constructed_file(prompts_file)
    /\ up' = TRUE
    /\ last' = [op |-> "construct", after |-> last.op,
                pre |-> IF last.op = "crash" THEN last.pre ELSE prompts_history,
                post |-> IF last.op = "crash" THEN last.post ELSE prompts_history,
                file |-> prompts_file]
    /\ UNCHANGED <<appended, fvars, avars, cvars, crashes, appvars>>

UpdatePrompt(new_prompt, improvements) ==
    /\ up
    /\ Len(prompts_history) < MaxVersions
    /\ prompts_history' = updated_history(prompts_history, new_prompt, improvements)
    /\ prompts_file' = save_prompts(prompts_history')
    /\ last' = [op |-> "update_prompt", new_prompt |-> new_prompt,
                improvements |-> improvements,
                old_version |-> get_current_version(prompts_history),
                ret |-> new_version(prompts_history),
                pre |-> prompts_history]
    /\ appended' = Append(appended, new_prompt)
    /\ UNCHANGED <<up, fvars, avars, cvars, crashes, appvars>>

IncrementFeedbackCount ==
    /\ up
    /\ prompts_history # <<>>
    /\ prompts_history[Len(prompts_history)].feedback_count < MaxFeedbackCount
    /\ prompts_history' = incremented_history(prompts_history)
    /\ prompts_file' = save_prompts(prompts_history')
    /\ last' = [op |-> "increment_feedback_count", pre |-> prompts_history]
    /\ UNCHANGED <<up, appended, fvars, avars, cvars, crashes, appvars>>

\* get_prompt_version(version), called on the history as it is
GetPromptVersion(version) ==
    /\ up
    /\ last' = [op |-> "get_prompt_version", version |-> version,
                ret |-> get_prompt_version(prompts_history, version)]
    /\ UNCHANGED <<up, pvars, fvars, avars, cvars, crashes, appvars>>

\* the process dies inside a mutating PromptManager call
CrashInUpdatePrompt(new_prompt, improvements) ==
    /\ up
    /\ crashes < MaxCrashes
    /\ Len(prompts_history) < MaxVersions
    /\ LET post == updated_history(prompts_history, new_prompt, improvements) IN
       /\ prompts_file' \in interrupted_save(prompts_file, save_prompts(post))
       /\ last' = [op |-> "crash", during |-> "update_prompt",
                   pre |-> prompts_history, post |-> post]
    /\ prompts_history' = <<>>
    /\ up' = FALSE
    /\ crashes' = crashes + 1
    /\ UNCHANGED <<appended, fvars, avars, cvars, appvars>>

CrashInIncrementFeedbackCount ==
    /\ up
    /\ crashes < MaxCrashes
    /\ prompts_history # <<>>
    /\ prompts_history[Len(prompts_history)].feedback_count < MaxFeedbackCount
    /\ LET post == incremented_history(prompts_history) IN
       /\ prompts_file' \in interrupted_save(prompts_file, save_prompts(post))
       /\ last' = [op |-> "crash", during |-> "increment_feedback_count",
                   pre |-> prompts_history, post |-> post]
    /\ prompts_history' = <<>>
    /\ up' = FALSE
    /\ crashes' = crashes + 1
    /\ UNCHANGED <<appended, fvars, avars, cvars, appvars>>

\* ------------------------------------------------------------------ text
\* the section markers _parse_analysis_response looks for, each on a line
MELHORIAS_APLICADAS == "MELHORIAS APLICADAS:"
NOVO_PROMPT == "NOVO PROMPT:"

\* "x in text"
contains(text, line) == \E i \in 1..Len(text) : text[i] = line

\* index of the first occurrence of line in text (there is one)
find(text, line) ==
    CHOOSE i \in 1..Len(text) :
        text[i] = line /\ \A j \in 1..(i - 1) : text[j] # line

\* text.split(sep)[0] and text.split(sep)[1] for a text that contains sep
before_first(text, sep) == SubSeq(text, 1, find(text, sep) - 1)

after_first(text, sep) ==
    LET rest == SubSeq(text, find(text, sep) + 1, Len(text)) IN
    IF contains(rest, sep) THEN before_first(rest, sep) ELSE rest

\* str.strip() on a text: blank lines at both ends go
RECURSIVE lstrip(_)
lstrip(text) ==
    IF text # <<>> /\ Head(text) = "" THEN lstrip(Tail(text)) ELSE text

RECURSIVE rstrip(_)
rstrip(text) ==
    IF text # <<>> /\ text[Len(text)] = ""
    THEN rstrip(SubSeq(text, 1, Len(text) - 1))
    ELSE text

strip(text) == rstrip(lstrip(text))

\* line.startswith('-') or line.startswith('•'), and line.lstrip('-•').strip()
is_bullet(line) == line \in {"- a", "- b"}
bullet_text(line) == IF line = "- a" THEN "a" ELSE IF line = "- b" THEN "b" ELSE line

RECURSIVE bullets(_)
bullets(section) ==
    IF section = <<>> THEN <<>>
    ELSE IF is_bullet(Head(section))
         THEN <<bullet_text(Head(section))>> \o bullets(Tail(section))
         ELSE bullets(Tail(section))

\* _parse_analysis_response: [improvements, new_prompt]
parse_analysis_response(response_text) ==
    IF contains(response_text, MELHORIAS_APLICADAS)
       /\ contains(response_text, NOVO_PROMPT)
    THEN LET part0 == before_first(response_text, NOVO_PROMPT) IN
         IF contains(part0, MELHORIAS_APLICADAS)
         THEN [improvements |->
                   bullets(strip(after_first(part0, MELHORIAS_APLICADAS))),
               new_prompt |-> strip(after_first(response_text, NOVO_PROMPT))]
         ELSE \* parts[0].split(...)[1] raises IndexError, caught
              [improvements |-> <<"Erro ao processar melhorias">>,
               new_prompt |-> response_text]
    ELSE [improvements |-> <<"Analise automatica de feedbacks aplicada">>,
          new_prompt |-> response_text]

\* ------------------------------------------------------------------ FeedbackProcessor
Ratings == {2, 5}
DefaultRating == 3      \* add_feedback(..., rating: int = 3)
\* ratings the signature accepts as well: any int
OtherRatings == {0}

feedback_numbered_from_zero(fbs, rating) ==
    [id |-> Len(fbs), rating |-> rating, processed |-> FALSE]

\* add_feedback: the entry appended (no key "auto_process")
feedback(fbs, rating) ==
    [id |-> Len(fbs) + 1, rating |-> rating, processed |-> FALSE]

\* the indices of fbs[-n:], Python's slice: the whole list for n = 0
python_tail(fbs, n) ==
    IF n = 0 \/ n >= Len(fbs) THEN 1..Len(fbs) ELSE (Len(fbs) - n + 1)..Len(fbs)

\* analyze_feedbacks: recent_feedbacks, as indices of self.feedbacks
recent_feedbacks_unfiltered(fbs, recent_count) == python_tail(fbs, recent_count)
recent_feedbacks(fbs, recent_count) ==
    {i \in python_tail(fbs, recent_count) : ~fbs[i].processed}

\* analyze_feedbacks: the loop that marks recent_feedbacks processed
mark_nothing(fbs, selected) == fbs
mark_processed(fbs, selected) ==
    [i \in 1..Len(fbs) |->
        IF i \in selected THEN [fbs[i] EXCEPT !.processed = TRUE] ELSE fbs[i]]

save_feedbacks(fbs) == Json(fbs)

\* _load_feedbacks: the list read; [] when json.load raises or no file
load_feedbacks(file) == IF file.kind = "json" THEN file.data ELSE <<>>

\* get_recent_feedbacks: self.feedbacks[-limit:] if self.feedbacks else []
get_recent_feedbacks(fbs, limit) ==
    IF fbs # <<>>
    THEN [i \in 1..Cardinality(python_tail(fbs, limit)) |->
             fbs[Len(fbs) - Cardinality(python_tail(fbs, limit)) + i]]
    ELSE <<>>

\* sum(f.get("rating", 3) for f in self.feedbacks)
RECURSIVE sum_of_ratings(_)
sum_of_ratings(fbs) ==
    IF fbs = <<>> THEN 0 ELSE Head(fbs).rating + sum_of_ratings(Tail(fbs))

truncated_2(num, den) == (100 * num) \div den

\* round(num / den, 2), in hundredths: the nearest hundredth, a tie going to
\* the even one
round_2(num, den) ==
    LET q == (100 * num) \div den
        twice_rest == 2 * ((100 * num) % den)
    IN IF twice_rest > den \/ (twice_rest = den /\ q % 2 = 1)
       THEN q + 1 ELSE q

\* get_statistics; average_rating is in hundredths
get_statistics(fbs) ==
    LET total == Len(fbs)
        processed == Cardinality({i \in 1..Len(fbs) : fbs[i].processed})
    IN [total_feedbacks |-> total,
        processed_feedbacks |-> processed,
        pending_feedbacks |-> total - processed,
        average_rating |-> IF total > 0
                           THEN round_2(sum_of_ratings(fbs), total)
                           ELSE 0]

\* what the completion service does with one call: generate_content raises,
\* or it answers with a text
Failure == [failed |-> TRUE, text |-> <<>>]
Answer(text) == [failed |-> FALSE, text |-> text]
Responses ==
    { <<MELHORIAS_APLICADAS, "- a", NOVO_PROMPT, "p1">>,
      <<MELHORIAS_APLICADAS, "- a", "- b", NOVO_PROMPT, "p0">>,
      <<MELHORIAS_APLICADAS, "p1", "- b", NOVO_PROMPT, "", "p1", "p0">>,
      <<MELHORIAS_APLICADAS, NOVO_PROMPT>>,
      <<NOVO_PROMPT, "p1", MELHORIAS_APLICADAS, "- a">>,
      <<MELHORIAS_APLICADAS, "- a", "p1">>,
      <<"p1">>,
      <<"p0">> }

Completions == {Answer(text) : text \in Responses} \cup {Failure}

\* one completion, an answer that keeps the prompt
LogCompletions ==
    {Answer(<<MELHORIAS_APLICADAS, "- a", "- b", NOVO_PROMPT, "p0">>)}

\* analyze_feedbacks(current_prompt, recent_count) on the list fbs, the
\* completion service answering `completion` if it is called
analyze_feedbacks(fbs, current_prompt, recent_count, completion) ==
    LET selected == recent_feedbacks(fbs, recent_count) IN
    IF fbs = <<>>
    THEN [feedbacks |-> fbs, saved |-> FALSE, selected |-> {},
          called |-> FALSE, completion |-> "none",
          new_prompt |-> current_prompt,
          improvements |-> <<"Nenhuma melhoria aplicada - sem feedbacks">>]
    ELSE IF selected = {}
    THEN [feedbacks |-> fbs, saved |-> FALSE, selected |-> {},
          called |-> FALSE, completion |-> "none",
          new_prompt |-> current_prompt,
          improvements |-> <<"Feedbacks ja processados anteriormente">>]
    ELSE IF completion.failed
    THEN [feedbacks |-> fbs, saved |-> FALSE, selected |-> selected,
          called |-> TRUE, completion |-> "failed",
          new_prompt |-> current_prompt,
          improvements |-> <<"Erro na analise">>]
    ELSE [feedbacks |-> mark_processed(fbs, selected), saved |-> TRUE,
          selected |-> selected, called |-> TRUE, completion |-> "ok",
          new_prompt |-> parse_analysis_response(completion.text).new_prompt,
          improvements |->
              parse_analysis_response(completion.text).improvements]

\* app.py: the caller's test on what analyze_feedbacks returned
always_update(new_prompt, current_prompt) == TRUE
should_update(new_prompt, current_prompt) == new_prompt # current_prompt

\* app.py: the outcome the caller records; it has no third one
pass_status(new_prompt, current_prompt) ==
    IF should_update(new_prompt, current_prompt) THEN "updated" ELSE "unchanged"

\* FeedbackProcessor.add_feedback
AddFeedback(rating) ==
    /\ up
    /\ Len(feedbacks) < MaxFeedbacks
    /\ feedbacks' = Append(feedbacks, feedback(feedbacks, rating))
    /\ feedbacks_file' = save_feedbacks(feedbacks')
    /\ adds' = adds + 1
    /\ last' = [op |-> "add_feedback", rating |-> rating, raised |-> FALSE,
                ret |-> feedback(feedbacks, rating),
                fb_before |-> feedbacks,
                fb_file_before |-> feedbacks_file]
    /\ UNCHANGED <<up, pvars, passes, sent, consumed, cvars, crashes, appvars>>

\* one improvement pass (app.py: get_current_prompt, analyze_feedbacks, and
\* update_prompt when the prompt returned differs from the current one)
ImprovementPass(recent_count, completion) ==
    /\ up
    /\ passes < MaxPasses
    /\ LET current_prompt == get_current_prompt(prompts_history)
           r == analyze_feedbacks(feedbacks, current_prompt, recent_count,
                                  completion)
           update == should_update(r.new_prompt, current_prompt)
       IN
       /\ update => Len(prompts_history) < MaxVersions
       /\ feedbacks' = r.feedbacks
       /\ feedbacks_file' = IF r.saved THEN save_feedbacks(r.feedbacks)
                            ELSE feedbacks_file
       /\ prompts_history' =
              IF update
              THEN updated_history(prompts_history, r.new_prompt, r.improvements)
              ELSE prompts_history
       /\ prompts_file' = IF update THEN save_prompts(prompts_history')
                          ELSE prompts_file
       /\ appended' = IF update THEN Append(appended, r.new_prompt)
                      ELSE appended
       /\ sent' = [i \in DOMAIN sent |->
                     IF r.called /\ i \in r.selected THEN sent[i] + 1 ELSE sent[i]]
       /\ consumed' = [i \in DOMAIN consumed |->
                         IF r.completion = "ok" /\ i \in r.selected
                         THEN consumed[i] + 1 ELSE consumed[i]]
       /\ last' = [op |-> "pass", recent_count |-> recent_count,
                   selected |-> r.selected, called |-> r.called,
                   completion |-> r.completion,
                   response |-> IF r.completion = "ok" THEN completion.text ELSE <<>>,
                   new_prompt |-> r.new_prompt,
                   improvements |-> r.improvements,
                   status |-> pass_status(r.new_prompt, current_prompt),
                   updated |-> update,
                   fb_before |-> feedbacks,
                   fb_file_before |-> feedbacks_file,
                   ph_before |-> prompts_history,
                   ph_file_before |-> prompts_file,
                   prev |-> IF last.op = "pass"
                            THEN [op |-> "pass",
                                  recent_count |-> last.recent_count,
                                  completion |-> last.completion]
                            ELSE [op |-> last.op]]
    /\ passes' = passes + 1
    /\ UNCHANGED <<up, adds, cvars, crashes, appvars>>

\* get_recent_feedbacks(limit), called on the log as it is
GetRecentFeedbacks(limit) ==
    /\ up
    /\ last' = [op |-> "get_recent_feedbacks", limit |-> limit,
                ret |-> get_recent_feedbacks(feedbacks, limit)]
    /\ UNCHANGED <<up, pvars, fvars, avars, cvars, crashes, appvars>>

\* get_statistics(), called on the log as it is
GetStatistics ==
    /\ up
    /\ last' = [op |-> "get_statistics", ret |-> get_statistics(feedbacks)]
    /\ UNCHANGED <<up, pvars, fvars, avars, cvars, crashes, appvars>>

\* ------------------------------------------------------------------ ConversationManager

\* one entry of tools_used: the tuple (function_name, str(function_args)) the
\* chatbot builds; json.dump writes a tuple as an array and json.load reads
\* an array back as a list
tool_call(name, args) == [tuple |-> TRUE, name |-> name, args |-> args]
json_array(entry) == [entry EXCEPT !.tuple = FALSE]

\* the (role, content, tools_used, tools_output) the application passes
TurnInputs ==
    { [role |-> "user", content |-> "hi", tools_used |-> <<>>,
       tools_output |-> ""],
      [role |-> "assistant", content |-> "hello",
       tools_used |-> <<tool_call("cep", "{}")>>, tools_output |-> "out"] }

\* add_message: the message built; tools_used and tools_output are keys of
\* it only when they are truthy
message_of(role, content, tools_used, tools_output) ==
    IF tools_used # <<>> /\ tools_output # ""
    THEN [role |-> role, content |-> content, tools_used |-> tools_used,
          tools_output |-> tools_output]
    ELSE IF tools_used # <<>>
    THEN [role |-> role, content |-> content, tools_used |-> tools_used]
    ELSE IF tools_output # ""
    THEN [role |-> role, content |-> content, tools_output |-> tools_output]
    ELSE [role |-> role, content |-> content]

\* json.dump followed by json.load, on a message and on the sessions
json_message(message) ==
    IF "tools_used" \in DOMAIN message
    THEN [message EXCEPT !.tools_used =
             [i \in 1..Len(@) |-> json_array(@[i])]]
    ELSE message

json_sessions(ss) ==
    [k \in 1..Len(ss) |->
        [ss[k] EXCEPT !.messages =
            [i \in 1..Len(@) |-> json_message(@[i])]]]

\* _load_conversations: data.get("sessions", []); [] when json.load raises;
\* the list the object was created with ([]) when the file does not exist
load_conversations(file) ==
    IF file.kind = "json" THEN file.data.sessions ELSE <<>>

\* _save_conversations, when the write completes
save_conversations(ss) == Json([sessions |-> json_sessions(ss)])

\* start_new_session: the session appended
new_session(session_id) ==
    [session_id |-> session_id, messages |-> <<>>, message_count |-> 0]

sessions_with_message_first(ss, index, message) ==
    [ss EXCEPT ![index + 1] =
        [@ EXCEPT !.messages = <<message>> \o @,
                  !.message_count = Len(ss[index + 1].messages) + 1]]

sessions_with_stale_count(ss, index, message) ==
    [ss EXCEPT ![index + 1] = [@ EXCEPT !.messages = Append(@, message)]]

\* add_message: the sessions after it; index counts from 0 as in the code
sessions_with_message(ss, index, message) ==
    [ss EXCEPT ![index + 1] =
        [@ EXCEPT !.messages = Append(@, message),
                  !.message_count = Len(ss[index + 1].messages) + 1]]

\* nothing to follow: no session started on this object, or a deletion since
NothingWritten == [session_id |-> None, turns |-> <<>>]

\* get_current_messages
get_current_messages(ss, index) ==
    IF index # None THEN ss[index + 1].messages ELSE <<>>

\* get_all_sessions
has_session(session) == TRUE
has_messages(session) == session.message_count > 0
get_all_sessions(ss) == SelectSeq(ss, has_messages)

\* delete_session: the list without the session, and the index after it
sessions_without(ss, session_id) ==
    LET keep(session) == session.session_id # session_id IN SelectSeq(ss, keep)

index_after_delete(ss, index) ==
    IF index >= Len(ss)
    THEN (IF ss # <<>> THEN Len(ss) - 1 ELSE None)
    ELSE index

\* clear_all_history: the sessions after it (start_new_session on [])
cleared_and_not_restarted(session_id) == <<>>
cleared_sessions(session_id) == <<new_session(session_id)>>

\* ConversationManager(data_dir): a (re)start of the process, or a second
\* construction on the same directory while it runs
ConversationManagerInit ==
    /\ sessions' = load_conversations(conversations_file)
    /\ current_session_id' = None
    /\ current_session_index' = None
    /\ up' = TRUE
    /\ last' = [op |-> "load_conversations", after |-> last.op,
                pre |-> IF last.op = "crash" THEN last.pre ELSE sessions,
                post |-> IF last.op = "crash" THEN last.post ELSE sessions,
                pre_index |-> current_session_index]
    /\ UNCHANGED <<pvars, fvars, avars, conversations_file, uuids, written,
                   crashes, appvars>>

StartNewSession ==
    /\ up
    /\ uuids < MaxSessions
    /\ uuids' = uuids + 1
    /\ current_session_id' = uuids'
    /\ sessions' = Append(sessions, new_session(uuids'))
    /\ current_session_index' = Len(sessions') - 1
    /\ conversations_file' = save_conversations(sessions')
    /\ last' = [op |-> "start_new_session", pre |-> sessions,
                pre_index |-> current_session_index]
    /\ written' = [session_id |-> uuids', turns |-> <<>>]
    /\ UNCHANGED <<up, pvars, fvars, avars, crashes, appvars>>

AddMessage(role, content, tools_used, tools_output) ==
    /\ up
    /\ current_session_index # None =>
          Len(sessions[current_session_index + 1].messages) < MaxTurns
    /\ LET message == message_of(role, content, tools_used, tools_output) IN
       /\ IF current_session_index # None
          THEN /\ sessions' = sessions_with_message(sessions,
                                                    current_session_index,
                                                    message)
               /\ conversations_file' = save_conversations(sessions')
          ELSE UNCHANGED <<sessions, conversations_file>>
       /\ last' = [op |-> "add_message", pre |-> sessions,
                   pre_index |-> current_session_index,
                   message |-> message,
                   saved |-> current_session_index # None]
    /\ written' =
          IF /\ current_session_index # None
             /\ sessions[current_session_index + 1].session_id =
                    written.session_id
          THEN [written EXCEPT !.turns = Append(@, message_of(role, content,
                                                   tools_used, tools_output))]
          ELSE NothingWritten
    /\ UNCHANGED <<up, pvars, fvars, avars, current_session_id,
                   current_session_index, uuids, crashes, appvars>>

\* clear_current_session
ClearCurrentSession ==
    /\ up
    /\ uuids < MaxSessions
    /\ uuids' = uuids + 1
    /\ current_session_id' = uuids'
    /\ sessions' = Append(sessions, new_session(uuids'))
    /\ current_session_index' = Len(sessions') - 1
    /\ conversations_file' = save_conversations(sessions')
    /\ last' = [op |-> "clear_current_session", pre |-> sessions,
                pre_index |-> current_session_index]
    /\ written' = [session_id |-> uuids', turns |-> <<>>]
    /\ UNCHANGED <<up, pvars, fvars, avars, crashes, appvars>>

\* delete_session(session_id); with current_session_index = None the
\* comparison None >= len(...) raises TypeError after self.sessions has
\* been replaced and before anything is saved
DeleteSession(session_id) ==
    /\ up
    /\ sessions' = sessions_without(sessions, session_id)
    /\ IF current_session_index = None
       THEN /\ UNCHANGED <<current_session_index, conversations_file>>
            /\ last' = [op |-> "delete_session", session_id |-> session_id,
                        raised |-> TRUE, pre |-> sessions,
                        pre_index |-> current_session_index,
                        pre_file |-> conversations_file]
       ELSE /\ current_session_index' =
                   index_after_delete(sessions', current_session_index)
            /\ conversations_file' =
                   IF Len(sessions') < Len(sessions)
                   THEN save_conversations(sessions')
                   ELSE conversations_file
            /\ last' = [op |-> "delete_session", session_id |-> session_id,
                        raised |-> FALSE, pre |-> sessions,
                        pre_index |-> current_session_index,
                        pre_file |-> conversations_file]
    /\ written' = NothingWritten
    /\ UNCHANGED <<up, pvars, fvars, avars, current_session_id, uuids, crashes, appvars>>

\* clear_all_history: everything goes, then start_new_session
ClearAllHistory ==
    /\ up
    /\ uuids < MaxSessions
    /\ uuids' = uuids + 1
    /\ current_session_id' = uuids'
    /\ sessions' = cleared_sessions(uuids')
    /\ current_session_index' = Len(sessions') - 1
    /\ conversations_file' = save_conversations(sessions')
    /\ last' = [op |-> "clear_all_history", pre |-> sessions,
                pre_index |-> current_session_index]
    /\ written' = [session_id |-> uuids', turns |-> <<>>]
    /\ UNCHANGED <<up, pvars, fvars, avars, crashes, appvars>>

\* the process dies inside add_message
CrashInAddMessage(role, content, tools_used, tools_output) ==
    /\ up
    /\ crashes < MaxCrashes
    /\ current_session_index # None
    /\ Len(sessions[current_session_index + 1].messages) < MaxTurns
    /\ LET post == sessions_with_message(sessions, current_session_index,
                                         message_of(role, content, tools_used,
                                                    tools_output))
       IN
       /\ conversations_file' \in
              interrupted_save(conversations_file, save_conversations(post))
       /\ last' = [op |-> "crash", during |-> "add_message",
                   pre |-> sessions, post |-> post]
    /\ sessions' = <<>>
    /\ current_session_id' = None
    /\ current_session_index' = None
    /\ up' = FALSE
    /\ crashes' = crashes + 1
    /\ UNCHANGED <<pvars, fvars, avars, uuids, written, appvars>>

\* ------------------------------------------------------------------ failing writes
\* what a _save_* whose write raises leaves on disk: the old file (open
\* failed) or a torn one (json.dump failed after open(..., 'w')); the
\* except clause logs the error and the method returns
failed_save(old_file) == {old_file, Torn}

\* update_prompt while prompts_history.json cannot be written
UpdatePromptSaveFails(new_prompt, improvements) ==
    /\ up
    /\ Len(prompts_history) < MaxVersions
    /\ prompts_history' = updated_history(prompts_history, new_prompt, improvements)
    /\ prompts_file' \in failed_save(prompts_file)
    /\ appended' = Append(appended, new_prompt)
    /\ last' = [op |-> "update_prompt", new_prompt |-> new_prompt,
                improvements |-> improvements,
                old_version |-> get_current_version(prompts_history),
                ret |-> new_version(prompts_history),
                pre |-> prompts_history,
                write_failed |-> TRUE, raised |-> FALSE,
                changed |-> prompts_history' # prompts_history,
                persisted |-> load_prompts(prompts_file') = prompts_history']
    /\ UNCHANGED <<up, fvars, avars, cvars, crashes, appvars>>

\* increment_feedback_count while prompts_history.json cannot be written
IncrementFeedbackCountSaveFails ==
    /\ up
    /\ prompts_history # <<>>
    /\ prompts_history[Len(prompts_history)].feedback_count < MaxFeedbackCount
    /\ prompts_history' = incremented_history(prompts_history)
    /\ prompts_file' \in failed_save(prompts_file)
    /\ last' = [op |-> "increment_feedback_count", pre |-> prompts_history,
                write_failed |-> TRUE, raised |-> FALSE,
                changed |-> prompts_history' # prompts_history,
                persisted |-> load_prompts(prompts_file') = prompts_history']
    /\ UNCHANGED <<up, appended, fvars, avars, cvars, crashes, appvars>>

\* add_feedback while feedbacks.json cannot be written
AddFeedbackSaveFails(rating) ==
    /\ up
    /\ Len(feedbacks) < MaxFeedbacks
    /\ feedbacks' = Append(feedbacks, feedback(feedbacks, rating))
    /\ feedbacks_file' \in failed_save(feedbacks_file)
    /\ adds' = adds + 1
    /\ last' = [op |-> "add_feedback", rating |-> rating,
                ret |-> feedback(feedbacks, rating),
                fb_before |-> feedbacks,
                fb_file_before |-> feedbacks_file,
                write_failed |-> TRUE, raised |-> FALSE,
                changed |-> feedbacks' # feedbacks,
                persisted |-> feedbacks_file' = save_feedbacks(feedbacks')]
    /\ UNCHANGED <<up, pvars, passes, sent, consumed, cvars, crashes, appvars>>

\* add_message, with a current session, while conversations.json cannot be
\* written
AddMessageSaveFails(role, content, tools_used, tools_output) ==
    /\ up
    /\ current_session_index # None
    /\ Len(sessions[current_session_index + 1].messages) < MaxTurns
    /\ LET message == message_of(role, content, tools_used, tools_output) IN
       /\ sessions' = sessions_with_message(sessions, current_session_index,
                                            message)
       /\ conversations_file' \in failed_save(conversations_file)
       /\ last' = [op |-> "add_message", pre |-> sessions,
                   pre_index |-> current_session_index,
                   message |-> message, saved |-> FALSE,
                   write_failed |-> TRUE, raised |-> FALSE,
                   changed |-> sessions' # sessions,
                   persisted |-> conversations_file' =
                                     save_conversations(sessions')]
       /\ written' =
              IF sessions[current_session_index + 1].session_id =
                     written.session_id
              THEN [written EXCEPT !.turns = Append(@, message)]
              ELSE NothingWritten
    /\ UNCHANGED <<up, pvars, fvars, avars, current_session_id,
                   current_session_index, uuids, crashes, appvars>>

\* ------------------------------------------------------------------ app.py
\* a browser session whose st.session_state is not initialized yet
NotStarted ==
    [prompts_history |-> <<default_prompt>>, feedbacks |-> <<>>,
     sessions |-> <<>>, current_session_id |-> None,
     current_session_index |-> None, messages |-> None]

\* initialize_session, the first run of the script in a browser session:
\* Chatbot (with its PromptManager), FeedbackProcessor and
\* ConversationManager are constructed on the data directory, then
\* start_new_session()
InitializeSession ==
    /\ up
    /\ messages = None
    /\ uuids < MaxSessions
    /\ prompts_history' = constructed_history(prompts_file)
    /\ prompts_file' = constructed_file(prompts_file)
    /\ feedbacks' = load_feedbacks(feedbacks_file)
    /\ uuids' = uuids + 1
    /\ current_session_id' = uuids'
    /\ sessions' = Append(load_conversations(conversations_file),
                          new_session(uuids'))
    /\ current_session_index' = Len(sessions') - 1
    /\ conversations_file' = save_conversations(sessions')
    /\ written' = [session_id |-> uuids', turns |-> <<>>]
    /\ messages' = 0
    /\ last' = [op |-> "initialize_session"]
    /\ UNCHANGED <<up, appended, feedbacks_file, avars, crashes, other>>

\* Chatbot.chat: what it returns to the page; every exception inside it is
\* caught and turned into an apology with no tools
UserInputs == {"hi"}
ERROR_RESPONSE == "Desculpe, ocorreu um erro ao processar sua mensagem"

ChatOutcomes ==
    { [failed |-> FALSE, response |-> "hello", tools_used |-> <<>>,
       tools_output |-> ""],
      [failed |-> FALSE, response |-> "hello",
       tools_used |-> <<tool_call("cep", "{}")>>, tools_output |-> "out"],
      [failed |-> TRUE, response |-> ERROR_RESPONSE, tools_used |-> <<>>,
       tools_output |-> ""] }

\* add_message as the page calls it: the sessions, the file and the ghost
\* record after the call
after_add_message(state, message) ==
    IF state.index # None
    THEN LET ss == sessions_with_message(state.sessions, state.index, message)
         IN [sessions |-> ss, index |-> state.index,
             file |-> save_conversations(ss),
             written |->
                 IF state.sessions[state.index + 1].session_id =
                        state.written.session_id
                 THEN [state.written EXCEPT !.turns = Append(@, message)]
                 ELSE NothingWritten]
    ELSE [state EXCEPT !.written = NothingWritten]

\* render_chat_area on a user input: the user turn is logged, the chatbot
\* is called, the assistant turn is logged
ChatTurn(user_input, outcome) ==
    /\ up
    /\ messages # None
    /\ messages < 2 * MaxTurns
    /\ current_session_index # None =>
          Len(sessions[current_session_index + 1].messages) + 2 <= MaxTurns
    /\ LET before == [sessions |-> sessions, index |-> current_session_index,
                      file |-> conversations_file, written |-> written]
           at_call == after_add_message(before,
                          message_of("user", user_input, <<>>, ""))
           after == after_add_message(at_call,
                        message_of("assistant", outcome.response,
                                   outcome.tools_used, outcome.tools_output))
       IN /\ sessions' = after.sessions
          /\ conversations_file' = after.file
          /\ written' = after.written
          /\ last' = [op |-> "chat", user_input |-> user_input,
                      failed |-> outcome.failed,
                      response |-> outcome.response,
                      pre |-> sessions, pre_index |-> current_session_index,
                      at_call |-> [sessions |-> at_call.sessions,
                                   file |-> at_call.file]]
    /\ messages' = messages + 2
    /\ UNCHANGED <<up, pvars, fvars, avars, current_session_id,
                   current_session_index, uuids, crashes, other>>

\* sidebar button "Limpar Conversa"
ClearConversation ==
    /\ up
    /\ messages # None
    /\ uuids < MaxSessions
    /\ uuids' = uuids + 1
    /\ current_session_id' = uuids'
    /\ sessions' = Append(sessions, new_session(uuids'))
    /\ current_session_index' = Len(sessions') - 1
    /\ conversations_file' = save_conversations(sessions')
    /\ written' = [session_id |-> uuids', turns |-> <<>>]
    /\ messages' = 0
    /\ last' = [op |-> "clear_conversation", pre |-> sessions,
                pre_index |-> current_session_index]
    /\ UNCHANGED <<up, pvars, fvars, avars, crashes, other>>

\* feedback_data.get("auto_process", False) on what add_feedback returned
auto_process_set(feedback_data) == TRUE
auto_process(feedback_data) ==
    IF "auto_process" \in DOMAIN feedback_data
    THEN feedback_data.auto_process
    ELSE FALSE

\* analyze_feedbacks(current_prompt, recent_count=3) in the page
AUTO_RECENT_COUNT == 3

\* render_feedback_area on "Enviar Feedback" with a non-empty text:
\* add_feedback, increment_feedback_count, then the improvement pass and
\* update_prompt when the entry says auto_process
SubmitFeedback(rating, completion) ==
    /\ up
    /\ messages # None
    /\ messages >= 2
    /\ Len(feedbacks) < MaxFeedbacks
    /\ prompts_history # <<>> =>
          prompts_history[Len(prompts_history)].feedback_count < MaxFeedbackCount
    /\ LET feedback_data == feedback(feedbacks, rating)
           added == Append(feedbacks, feedback_data)
           counted == incremented_history(prompts_history)
           auto == auto_process(feedback_data)
           current_prompt == get_current_prompt(counted)
           r == analyze_feedbacks(added, current_prompt, AUTO_RECENT_COUNT,
                                  completion)
           update == auto /\ should_update(r.new_prompt, current_prompt)
       IN
       /\ auto => passes < MaxPasses
       /\ update => Len(prompts_history) < MaxVersions
       /\ feedbacks' = IF auto THEN r.feedbacks ELSE added
       /\ feedbacks_file' = save_feedbacks(feedbacks')
       /\ prompts_history' =
              IF update
              THEN updated_history(counted, r.new_prompt, r.improvements)
              ELSE counted
       /\ prompts_file' = IF prompts_history # <<>> \/ update
                          THEN save_prompts(prompts_history')
                          ELSE prompts_file
       /\ appended' = IF update THEN Append(appended, r.new_prompt)
                      ELSE appended
       /\ passes' = IF auto THEN passes + 1 ELSE passes
       /\ sent' = [i \in DOMAIN sent |->
                     IF auto /\ r.called /\ i \in r.selected
                     THEN sent[i] + 1 ELSE sent[i]]
       /\ consumed' = [i \in DOMAIN consumed |->
                         IF auto /\ r.completion = "ok" /\ i \in r.selected
                         THEN consumed[i] + 1 ELSE consumed[i]]
       /\ last' = [op |-> "submit_feedback", rating |-> rating,
                   ret |-> feedback_data, auto |-> auto,
                   fb_before |-> feedbacks, ph_before |-> prompts_history]
    /\ adds' = adds + 1
    /\ UNCHANGED <<up, cvars, crashes, appvars>>

\* the other browser session is served: its st.session_state takes the
\* place of this one's, the files are the same
SwitchSession ==
    /\ up
    /\ other' = [prompts_history |-> prompts_history,
                 feedbacks |-> feedbacks, sessions |-> sessions,
                 current_session_id |-> current_session_id,
                 current_session_index |-> current_session_index,
                 messages |-> messages]
    /\ prompts_history' = other.prompts_history
    /\ feedbacks' = other.feedbacks
    /\ sessions' = other.sessions
    /\ current_session_id' = other.current_session_id
    /\ current_session_index' = other.current_session_index
    /\ messages' = other.messages
    /\ written' = NothingWritten
    /\ last' = [op |-> "switch_session"]
    /\ UNCHANGED <<up, prompts_file, appended, feedbacks_file, avars,
                   conversations_file, uuids, crashes>>

\* ------------------------------------------------------------------ initial state
\* A fresh data directory on which the application has constructed its
\* PromptManager (default version 1 written) and FeedbackProcessor.
Init ==
    /\ up = TRUE
    /\ prompts_history = <<default_prompt>>
    /\ prompts_file = Json(<<default_prompt>>)
    /\ appended = <<>>
    /\ feedbacks = <<>>
    /\ feedbacks_file = NoFile
    /\ passes = 0
    /\ sent = [i \in 1..MaxFeedbacks |-> 0]
    /\ consumed = [i \in 1..MaxFeedbacks |-> 0]
    /\ sessions = <<>>
    /\ current_session_id = None
    /\ current_session_index = None
    /\ conversations_file = NoFile
    /\ uuids = 0
    /\ written = NothingWritten
    /\ adds = 0
    /\ crashes = 0
    /\ messages = None
    /\ other = NotStarted
    /\ last = NoOp

\* ------------------------------------------------------------------ PromptStore alone
NextPromptStore ==
    \/ \E p \in PromptInputs, i \in ImprovementInputs : UpdatePrompt(p, i)
    \/ IncrementFeedbackCount
    \/ PromptManagerInit
    \/ \E version \in 0..(MaxVersions + 1) : GetPromptVersion(version)

SpecPromptStore == Init /\ [][NextPromptStore]_vars

\* PromptStore with crashes inside its mutating calls
NextPromptStoreCrash ==
    \/ \E p \in PromptInputs, i \in ImprovementInputs : UpdatePrompt(p, i)
    \/ IncrementFeedbackCount
    \/ \E p \in PromptInputs, i \in ImprovementInputs : CrashInUpdatePrompt(p, i)
    \/ CrashInIncrementFeedbackCount
    \/ PromptManagerInit

SpecPromptStoreCrash == Init /\ [][NextPromptStoreCrash]_vars

\* ------------------------------------------------------------------ the improver
NextImprover ==
    \/ AddFeedback(DefaultRating)
    \/ \E n \in 1..MaxWindow, c \in Completions : ImprovementPass(n, c)
    \/ \E c \in Completions : ImprovementPass(0, c)

SpecImprover == Init /\ [][NextImprover]_vars

\* ------------------------------------------------------------------ stores with failing writes
\* the three stores share no state: each is exercised while the other two
\* are as constructed
prompt_store_untouched ==
    /\ prompts_history = <<default_prompt>>
    /\ prompts_file = Json(<<default_prompt>>)
feedback_log_untouched == feedbacks = <<>> /\ feedbacks_file = NoFile
conversation_log_untouched == sessions = <<>> /\ uuids = 0

others_untouched(store) ==
    /\ store # "prompts" => prompt_store_untouched
    /\ store # "feedbacks" => feedback_log_untouched
    /\ store # "conversations" => conversation_log_untouched

NextFailingWrites ==
    \/ \E p \in PromptInputs, i \in ImprovementInputs :
           others_untouched("prompts") /\ UpdatePrompt(p, i)
    \/ \E p \in PromptInputs, i \in ImprovementInputs :
           others_untouched("prompts") /\ UpdatePromptSaveFails(p, i)
    \/ others_untouched("prompts") /\ IncrementFeedbackCount
    \/ others_untouched("prompts") /\ IncrementFeedbackCountSaveFails
    \/ others_untouched("feedbacks") /\ AddFeedback(DefaultRating)
    \/ others_untouched("feedbacks") /\ AddFeedbackSaveFails(DefaultRating)
    \/ others_untouched("conversations") /\ StartNewSession
    \/ \E t \in TurnInputs :
           /\ others_untouched("conversations")
           /\ AddMessage(t.role, t.content, t.tools_used, t.tools_output)
    \/ \E t \in TurnInputs :
           /\ others_untouched("conversations")
           /\ AddMessageSaveFails(t.role, t.content, t.tools_used,
                                  t.tools_output)

SpecFailingWrites == Init /\ [][NextFailingWrites]_vars

\* ------------------------------------------------------------------ the application
\* one browser session: what the pages of app.py can do
initialized == messages # None

NextApp ==
    \/ InitializeSession
    \/ \E user_input \in UserInputs, outcome \in ChatOutcomes :
           ChatTurn(user_input, outcome)
    \/ \E rating \in Ratings, completion \in Completions :
           SubmitFeedback(rating, completion)
    \/ ClearConversation
    \/ \E k \in 1..MaxSessions :
           /\ initialized
           /\ k <= Len(get_all_sessions(sessions))
           /\ DeleteSession(get_all_sessions(sessions)[k].session_id)
    \/ initialized /\ ClearAllHistory

SpecApp == Init /\ [][NextApp]_vars

\* two browser sessions on the same data directory, served in any order
NextTwoSessions ==
    \/ InitializeSession
    \/ SwitchSession
    \/ \E user_input \in UserInputs, outcome \in ChatOutcomes :
           ChatTurn(user_input, outcome)
    \/ \E completion \in LogCompletions :
           SubmitFeedback(DefaultRating, completion)
    \/ initialized /\ UpdatePrompt(<<"p1">>, <<"a">>)

SpecTwoSessions == Init /\ [][NextTwoSessions]_vars

\* ------------------------------------------------------------------ the feedback log
\* the feedback log with its queries; improvement passes set the processed
\* flags, with an answer that keeps the prompt

NextFeedbackLog ==
    \/ \E rating \in Ratings \cup OtherRatings : AddFeedback(rating)
    \/ \E limit \in 0..(MaxWindow + 1) : GetRecentFeedbacks(limit)
    \/ GetStatistics
    \/ \E n \in 0..MaxWindow, c \in LogCompletions : ImprovementPass(n, c)

SpecFeedbackLog == Init /\ [][NextFeedbackLog]_vars

\* ------------------------------------------------------------------ the conversation log
NextConversationCrash ==
    \/ ConversationManagerInit
    \/ StartNewSession
    \/ \E t \in TurnInputs :
           AddMessage(t.role, t.content, t.tools_used, t.tools_output)
    \/ \E t \in TurnInputs :
           CrashInAddMessage(t.role, t.content, t.tools_used, t.tools_output)

SpecConversationCrash == Init /\ [][NextConversationCrash]_vars

\* the conversation log, all its operations, no crash
NextConversation ==
    \/ ConversationManagerInit
    \/ StartNewSession
    \/ \E t \in TurnInputs :
           AddMessage(t.role, t.content, t.tools_used, t.tools_output)
    \/ ClearCurrentSession
    \/ \E session_id \in 1..MaxSessions : DeleteSession(session_id)
    \/ ClearAllHistory

SpecConversation == Init /\ [][NextConversation]_vars

\* ------------------------------------------------------------------ properties
\* old is kept in new: same positions, same version numbers, same texts
preserved(old, new) ==
    /\ Len(old) <= Len(new)
    /\ \A i \in 1..Len(old) :
          /\ new[i].version = old[i].version
          /\ new[i].prompt = old[i].prompt

\* the most recent n entries of fbs, as the indices of the last min(n, len)
most_recent(fbs, n) ==
    {i \in 1..Len(fbs) : i > Len(fbs) - n}

\* C1: from a fresh store, the stored version numbers are 1, 2, ..., n in list
\* order (version 1 holding the built-in default), update_prompt returns the
\* old current version + 1, and the current prompt is the text of the most
\* recent update_prompt: the call sets it and no other call changes it.
C1_VersionsDense ==
    /\ \A i \in 1..Len(prompts_history) : prompts_history[i].version = i
    /\ prompts_history[1].prompt = DEFAULT_PROMPT
    /\ last.op = "update_prompt" =>
          /\ last.ret = last.old_version + 1
          /\ last.ret = get_current_version(prompts_history)
          /\ Len(prompts_history) = Len(last.pre) + 1
          /\ get_current_prompt(prompts_history) = last.new_prompt
    /\ last.op \in {"increment_feedback_count", "construct"} =>
          get_current_prompt(prompts_history) = get_current_prompt(last.pre)

C1_Witness ==
    /\ last.op = "update_prompt"
    /\ last.ret = MaxVersions
    /\ last.new_prompt # prompts_history[2].prompt

\* C2: no PromptStore operation (construction or reload from the data
\* directory, update_prompt, increment_feedback_count) removes, replaces or
\* rewrites a version that existed before it: after the operation the list
\* of the last completed call is still there, position by position.
C2_HistoryNeverRewritten ==
    last.op \in {"update_prompt", "increment_feedback_count", "construct"} =>
        preserved(last.pre, prompts_history)

\* C3 as amended: an entry is in the input of at most one improvement pass
\* whose completion call succeeds; a pass never selects an entry whose
\* processed flag is true, even when its window contains it; no add_feedback
\* and no pass turns a processed flag back to false.
C3_AtMostOneSuccessfulPass ==
    /\ \A i \in DOMAIN consumed : consumed[i] <= 1
    /\ last.op = "pass" =>
          \A i \in last.selected : ~last.fb_before[i].processed
    /\ last.op \in {"pass", "add_feedback"} =>
          \A i \in 1..Len(last.fb_before) :
              last.fb_before[i].processed =>
                  (i <= Len(feedbacks) /\ feedbacks[i].processed)

\* C3 as stated: an entry is in the input of at most one improvement pass.
C3_AtMostOnePass ==
    /\ \A i \in DOMAIN sent : sent[i] <= 1
    /\ last.op = "pass" =>
          \A i \in last.selected : ~last.fb_before[i].processed
    /\ last.op \in {"pass", "add_feedback"} =>
          \A i \in 1..Len(last.fb_before) :
              last.fb_before[i].processed =>
                  (i <= Len(feedbacks) /\ feedbacks[i].processed)

C3_Witness ==
    /\ last.op = "pass"
    /\ last.completion = "ok"
    /\ last.recent_count > 0
    /\ last.selected # {}
    /\ \E i \in most_recent(last.fb_before, last.recent_count) :
          last.fb_before[i].processed

\* C4: when the completion call of a pass fails, no processed flag changes,
\* the PromptStore gains no version, and the pass reports a failure, which
\* is neither "unchanged" nor "updated".
C4_FailureIsReported ==
    (last.op = "pass" /\ last.completion = "failed") =>
        /\ feedbacks = last.fb_before
        /\ feedbacks_file = last.fb_file_before
        /\ prompts_history = last.ph_before
        /\ prompts_file = last.ph_file_before
        /\ last.status = "failed"

\* C5 as stated: a pass that directly follows a pass with the same window
\* size (no feedback added in between) reports unchanged and leaves the
\* current prompt version as it was, whatever the first pass did.
C5_SecondPassUnchanged ==
    (/\ last.op = "pass"
     /\ last.prev.op = "pass"
     /\ last.prev.recent_count = last.recent_count) =>
        /\ last.status = "unchanged"
        /\ prompts_history = last.ph_before

\* C5 as amended: the same, when the completion call of the first pass did
\* not fail.
C5_SecondPassUnchangedAfterSuccess ==
    (/\ last.op = "pass"
     /\ last.prev.op = "pass"
     /\ last.prev.recent_count = last.recent_count
     /\ last.prev.completion # "failed") =>
        /\ last.status = "unchanged"
        /\ prompts_history = last.ph_before

C5_Witness ==
    /\ last.op = "pass"
    /\ last.prev.op = "pass"
    /\ last.prev.recent_count = last.recent_count
    /\ last.prev.completion = "ok"
    /\ Len(prompts_history) > 1

\* C6: after a pass whose completion call succeeds, the unprocessed entries
\* among the most recent recent_count entries are processed, every other
\* entry keeps its flag, and the file holds the list, whether or not the
\* prompt changed.
C6_SelectedEntriesConsumed ==
    (last.op = "pass" /\ last.completion = "ok") =>
        LET sel == {i \in most_recent(last.fb_before, last.recent_count) :
                       ~last.fb_before[i].processed}
        IN
        /\ Len(feedbacks) = Len(last.fb_before)
        /\ \A i \in 1..Len(feedbacks) :
              IF i \in sel
              THEN feedbacks[i].processed
              ELSE feedbacks[i].processed = last.fb_before[i].processed
        /\ feedbacks_file = Json(feedbacks)

\* C6 for recent_count >= 1: the same statement, which the code meets.
C6_ForPositiveWindow ==
    last.op = "pass" /\ last.recent_count >= 1 => C6_SelectedEntriesConsumed

\* C7: after a pass whose completion call succeeds, the PromptStore has
\* gained exactly one version (current + 1, feedback count 0, the parsed
\* text and improvements) when the parsed text differs from the current
\* prompt; when it is the same text the PromptStore and its file are as
\* before and the pass reports unchanged.
C7_VersionIffTextDiffers ==
    (last.op = "pass" /\ last.completion = "ok") =>
        LET parsed == parse_analysis_response(last.response)
            current == get_current_prompt(last.ph_before)
        IN
        IF parsed.new_prompt # current
        THEN /\ prompts_history =
                    Append(last.ph_before,
                           [version |-> Len(last.ph_before) + 1,
                            prompt |-> parsed.new_prompt,
                            feedback_count |-> 0,
                            improvements |-> parsed.improvements])
             /\ prompts_file = Json(prompts_history)
             /\ last.status = "updated"
        ELSE /\ prompts_history = last.ph_before
             /\ prompts_file = last.ph_file_before
             /\ last.status = "unchanged"

C7_Witness ==
    /\ last.op = "pass"
    /\ last.completion = "ok"
    /\ last.status = "unchanged"
    /\ Len(last.ph_before) = 2
    /\ last.selected # {}

\* C8: when the log is empty, or none of the most recent recent_count
\* entries is unprocessed, the pass reports unchanged, does not call the
\* completion service and leaves the log, the PromptStore and both files as
\* they were.
C8_NothingToDo ==
    (/\ last.op = "pass"
     /\ \A i \in most_recent(last.fb_before, last.recent_count) :
           last.fb_before[i].processed) =>
        /\ last.status = "unchanged"
        /\ ~last.called
        /\ feedbacks = last.fb_before
        /\ feedbacks_file = last.fb_file_before
        /\ prompts_history = last.ph_before
        /\ prompts_file = last.ph_file_before

\* C8 for recent_count >= 1: the same statement, which the code meets.
C8_ForPositiveWindow ==
    last.op = "pass" /\ last.recent_count >= 1 => C8_NothingToDo

C8_PositiveWindowWitness ==
    /\ last.op = "pass"
    /\ last.recent_count >= 1
    /\ last.fb_before # <<>>
    /\ \A i \in most_recent(last.fb_before, last.recent_count) :
          last.fb_before[i].processed
    /\ \E i \in 1..Len(last.fb_before) : ~last.fb_before[i].processed

\* C9: a crash inside update_prompt or increment_feedback_count leaves in the
\* file the complete list of before the call or the complete list of after
\* it, and the next construction loads one of the two.
C9_CrashLeavesPreOrPost ==
    /\ last.op = "crash" =>
          prompts_file \in {Json(last.pre), Json(last.post)}
    /\ (last.op = "construct" /\ last.after = "crash") =>
          prompts_history \in {last.pre, last.post}

\* C10: after a crash inside add_message, the sessions loaded from the file
\* hold every turn appended by the calls completed before it, in its session
\* and at its position; only the turn of the call in flight may be missing.
C10_CrashKeepsPriorTurns ==
    (last.op = "load_conversations" /\ last.after = "crash") =>
        \A k \in 1..Len(last.pre) :
            \A m \in 1..Len(last.pre[k].messages) :
                \E j \in 1..Len(sessions) :
                    /\ sessions[j].session_id = last.pre[k].session_id
                    /\ Len(sessions[j].messages) >= m
                    /\ sessions[j].messages[m] =
                           json_message(last.pre[k].messages[m])

\* what a turn says: role, content, the tool calls as (name, arguments) pairs
\* in order, and the tool output; a Python tuple and the JSON array read
\* back for it are the same pair
turn_view(message) ==
    [role |-> message.role,
     content |-> message.content,
     tools_used |-> IF "tools_used" \in DOMAIN message
                    THEN [i \in 1..Len(message.tools_used) |->
                             <<message.tools_used[i].name,
                               message.tools_used[i].args>>]
                    ELSE <<>>,
     tools_output |-> IF "tools_output" \in DOMAIN message
                      THEN message.tools_output ELSE ""]

same_turns(ms1, ms2) ==
    /\ Len(ms1) = Len(ms2)
    /\ \A m \in 1..Len(ms1) : turn_view(ms1[m]) = turn_view(ms2[m])

session_ids(ss) == {ss[k].session_id : k \in 1..Len(ss)}
session_with(ss, session_id) ==
    ss[CHOOSE k \in 1..Len(ss) : ss[k].session_id = session_id]

\* C11: a ConversationManager constructed on the file, after a session was
\* started and N turns were passed to add_message, holds one session with
\* that session_id, exactly those N turns in the order of the calls, and
\* message_count = N.
C11_RoundTrip ==
    (last.op = "load_conversations" /\ written.session_id # None) =>
        /\ Cardinality({k \in 1..Len(sessions) :
                           sessions[k].session_id = written.session_id}) = 1
        /\ same_turns(session_with(sessions, written.session_id).messages,
                      written.turns)
        /\ session_with(sessions, written.session_id).message_count =
               Len(written.turns)

C11_Witness ==
    /\ last.op = "load_conversations"
    /\ last.after = "add_message"
    /\ Len(written.turns) = MaxTurns
    /\ "tools_used" \in DOMAIN written.turns[2]
    /\ turn_view(written.turns[1]) # turn_view(written.turns[2])
    /\ session_with(sessions, written.session_id).messages # written.turns
    /\ Len(sessions) > 1

\* C12: every turn passed to add_message once a session has been started is
\* saved, appended to the most recently started session and to no other,
\* whatever delete_session calls came in between.
C12_TurnGoesToLatestSession ==
    (last.op = "add_message" /\ current_session_id # None) =>
        /\ current_session_id \in session_ids(sessions)
        /\ current_session_id \in session_ids(last.pre)
        /\ session_with(sessions, current_session_id).messages =
               Append(session_with(last.pre, current_session_id).messages,
                      last.message)
        /\ \A k \in 1..Len(sessions) :
               sessions[k].session_id # current_session_id =>
                   sessions[k] \in {last.pre[j] : j \in 1..Len(last.pre)}
        /\ conversations_file = save_conversations(sessions)

\* C13: delete_session(id) removes exactly the session with that id and
\* leaves the others as they were; when the session deleted was the current
\* one, no session is current afterwards: get_current_messages() is empty
\* and current_session_index designates no session.
C13_DeleteLeavesNoCurrent ==
    last.op = "delete_session" =>
        /\ sessions = sessions_without(last.pre, last.session_id)
        /\ (/\ last.pre_index # None
            /\ last.pre[last.pre_index + 1].session_id = last.session_id) =>
               /\ get_current_messages(sessions, current_session_index) = <<>>
               /\ current_session_index = None

\* C14: when clear_all_history returns, the log holds exactly one session,
\* empty and current, get_all_sessions() is empty, and the file holds that
\* state: a construction on it loads the same single empty session.
C14_ClearAllLeavesOneEmptySession ==
    last.op = "clear_all_history" =>
        /\ Len(sessions) = 1
        /\ sessions[1].messages = <<>>
        /\ sessions[1].message_count = 0
        /\ current_session_index = 0
        /\ current_session_id = sessions[1].session_id
        /\ get_current_messages(sessions, current_session_index) = <<>>
        /\ get_all_sessions(sessions) = <<>>
        /\ conversations_file = save_conversations(sessions)
        /\ load_conversations(conversations_file) = sessions

C14_Witness ==
    /\ last.op = "clear_all_history"
    /\ \E k \in 1..Len(last.pre) : Len(last.pre[k].messages) = MaxTurns
    /\ get_all_sessions(last.pre) # <<>>

\* C15: get_all_sessions() returns exactly the sessions with at least one
\* turn, in creation order; a session just started is not in it, a session
\* is in it once a turn was appended to it, and the session deleted by
\* delete_session(id) is not in it.
C15_AllSessionsAreTheNonEmptyOnes ==
    LET shown == get_all_sessions(sessions) IN
    /\ \A k \in 1..Len(sessions) :
           (Len(sessions[k].messages) >= 1) <=>
               (\E i \in 1..Len(shown) : shown[i] = sessions[k])
    /\ \A i \in 1..Len(shown) : \E k \in 1..Len(sessions) : shown[i] = sessions[k]
    /\ \A i, j \in 1..Len(shown) :
           i < j => shown[i].session_id < shown[j].session_id
    /\ last.op \in {"start_new_session", "clear_current_session",
                     "clear_all_history"} =>
           current_session_id \notin session_ids(shown)
    /\ (last.op = "add_message" /\ last.pre_index # None) =>
           last.pre[last.pre_index + 1].session_id \in session_ids(shown)
    /\ last.op = "delete_session" => last.session_id \notin session_ids(shown)

C15_Witness ==
    /\ last.op = "add_message"
    /\ Len(get_all_sessions(last.pre)) = 1
    /\ Len(get_all_sessions(sessions)) = 2

\* C16: every stored session has message_count = len(messages); add_message
\* adds one turn at the end of the current session (the one at
\* current_session_index) and one to its message_count, and leaves its
\* earlier turns and every other session as they were.
C16_MessageCountIsLength ==
    /\ \A k \in 1..Len(sessions) :
           sessions[k].message_count = Len(sessions[k].messages)
    /\ (last.op = "add_message" /\ last.pre_index # None) =>
           /\ Len(sessions) = Len(last.pre)
           /\ \A k \in 1..Len(sessions) :
                  IF k = last.pre_index + 1
                  THEN /\ sessions[k].messages =
                              Append(last.pre[k].messages, last.message)
                       /\ sessions[k].message_count =
                              last.pre[k].message_count + 1
                       /\ sessions[k].session_id = last.pre[k].session_id
                  ELSE sessions[k] = last.pre[k]

C16_Witness ==
    /\ last.op = "add_message"
    /\ last.pre_index # None
    /\ Len(last.pre) = 2
    /\ Len(last.pre[last.pre_index + 1].messages) = 1
    /\ \E k \in 1..Len(last.pre) :
           k # last.pre_index + 1 /\ last.pre[k].messages # <<>>

\* C17: the ids assigned by add_feedback are 1, 2, 3, ... in call order,
\* the entry a call adds has processed = false, and get_statistics() reports
\* as total the number of add_feedback calls that returned.
C17_IdsCountTheAdds ==
    /\ \A i \in 1..Len(feedbacks) : feedbacks[i].id = i
    /\ get_statistics(feedbacks).total_feedbacks = adds
    /\ last.op = "add_feedback" =>
           /\ last.ret.id = adds
           /\ last.ret.processed = FALSE
           /\ feedbacks = Append(last.fb_before, last.ret)
    /\ last.op = "get_statistics" => last.ret.total_feedbacks = adds

C17_Witness ==
    /\ last.op = "get_statistics"
    /\ adds = MaxFeedbacks
    /\ \E i \in 1..Len(feedbacks) : feedbacks[i].processed

\* C18: add_feedback with a rating outside 1..5 fails and changes nothing:
\* no entry appended, no id used, nothing written.
C18_InvalidRatingRejected ==
    (last.op = "add_feedback" /\ last.rating \notin 1..5) =>
        /\ last.raised
        /\ feedbacks = last.fb_before
        /\ feedbacks_file = last.fb_file_before

\* C19: get_recent_feedbacks(limit) returns the last min(limit, total)
\* entries, oldest first, for every limit >= 0; a pass with window
\* recent_count selects among the last min(recent_count, total) entries.
C19_RecentIsLastMin ==
    /\ last.op = "get_recent_feedbacks" =>
           LET total == Len(feedbacks)
               n == IF last.limit < total THEN last.limit ELSE total
           IN last.ret = SubSeq(feedbacks, total - n + 1, total)
    /\ last.op = "pass" =>
           last.selected \subseteq most_recent(last.fb_before, last.recent_count)

\* C20: get_statistics() reports total = number of entries, processed =
\* number of entries with processed = true, pending = total - processed,
\* and as average 0 for an empty log and otherwise the mean of the ratings
\* rounded to 2 decimals (ratings 2 and 5: 3.5).
C20_Statistics ==
    last.op = "get_statistics" =>
        LET n == Len(feedbacks)
            done == {i \in 1..n : feedbacks[i].processed}
            sum == sum_of_ratings(feedbacks)
            err == 100 * sum - last.ret.average_rating * n
        IN /\ last.ret.total_feedbacks = n
           /\ last.ret.processed_feedbacks = Cardinality(done)
           /\ last.ret.pending_feedbacks = n - Cardinality(done)
           /\ n = 0 => last.ret.average_rating = 0
           /\ n > 0 => 2 * err <= n /\ -2 * err <= n
           /\ [i \in 1..n |-> feedbacks[i].rating] = <<2, 5>> =>
                  last.ret.average_rating = 350

C20_Witness ==
    /\ last.op = "get_statistics"
    /\ Len(feedbacks) = MaxFeedbacks
    /\ (100 * sum_of_ratings(feedbacks)) % Len(feedbacks) * 2 > Len(feedbacks)
    /\ last.ret.processed_feedbacks > 0
    /\ last.ret.pending_feedbacks > 0

\* C21: get_prompt_version(n) returns the text passed to the n-th append,
\* the default text being the first, for every n from 1 to the current
\* version, and None for n above the current version or below 1.
C21_VersionTextIsTheOneAppended ==
    last.op = "get_prompt_version" =>
        LET texts == <<DEFAULT_PROMPT>> \o appended IN
        IF last.version \in 1..get_current_version(prompts_history)
        THEN last.ret = FoundPrompt(texts[last.version])
        ELSE last.ret = NotFound

C21_Witness ==
    /\ last.op = "get_prompt_version"
    /\ last.version = MaxVersions
    /\ last.ret.found
    /\ last.ret.prompt # prompts_history[last.version - 1].prompt
    /\ last.ret.prompt # DEFAULT_PROMPT

\* C22: a second PromptManager constructed on the data directory after any
\* append and increment_feedback_count calls holds the same version list
\* (same current version, text and feedback counts), adds no version and
\* leaves the file as it was; the default version is created only when the
\* file holds no version.
C22_ReloadKeepsVersions ==
    (last.op = "construct" /\ last.after # "crash") =>
        /\ prompts_history = last.pre
        /\ prompts_file = last.file
        /\ load_prompts(last.file) # <<>> =>
               prompts_history = load_prompts(last.file)
        /\ get_current_version(prompts_history) = Len(appended) + 1
        /\ get_current_prompt(prompts_history) =
               (<<DEFAULT_PROMPT>> \o appended)[Len(appended) + 1]

C22_Witness ==
    /\ last.op = "construct"
    /\ last.after = "increment_feedback_count"
    /\ Len(last.pre) = MaxVersions
    /\ last.pre[Len(last.pre)].feedback_count = MaxFeedbackCount
    /\ last.pre[1].feedback_count > 0

\* C23: increment_feedback_count adds exactly 1 to the feedback_count of the
\* current (last) version and leaves every other feedback_count, every text
\* and version number and the current version as they were; a version
\* created by update_prompt starts with feedback_count 0.
C23_IncrementTouchesCurrentOnly ==
    /\ last.op = "increment_feedback_count" =>
           /\ Len(prompts_history) = Len(last.pre)
           /\ \A i \in 1..Len(last.pre) :
                  /\ prompts_history[i].version = last.pre[i].version
                  /\ prompts_history[i].prompt = last.pre[i].prompt
                  /\ prompts_history[i].improvements = last.pre[i].improvements
                  /\ prompts_history[i].feedback_count =
                         IF i = Len(last.pre)
                         THEN last.pre[i].feedback_count + 1
                         ELSE last.pre[i].feedback_count
    /\ last.op = "update_prompt" =>
           prompts_history[Len(prompts_history)].feedback_count = 0

C23_Witness ==
    /\ last.op = "increment_feedback_count"
    /\ Len(last.pre) >= 2
    /\ last.pre[Len(last.pre)].feedback_count = 1
    /\ last.pre[1].feedback_count = MaxFeedbackCount

\* C24: when the write inside update_prompt, increment_feedback_count,
\* add_feedback or add_message fails, the call fails for its caller; it does
\* not return normally with the in-memory state changed and the change not
\* on disk.
C24_WriteFailureIsSurfaced ==
    ("write_failed" \in DOMAIN last /\ last.write_failed) =>
        /\ last.raised
        /\ ~(last.changed /\ ~last.persisted)

\* C26: parsing the response of a pass never fails; with both markers in
\* the response it yields the bullet lines between them as improvements and
\* the text after the prompt marker as new prompt; with a marker missing it
\* yields the whole response as new prompt and exactly one improvement note.
C26_ParseSectionsOrFallBack ==
    (last.op = "pass" /\ last.completion = "ok") =>
        LET text == last.response IN
        IF contains(text, MELHORIAS_APLICADAS) /\ contains(text, NOVO_PROMPT)
        THEN LET m == find(text, MELHORIAS_APLICADAS)
                 n == find(text, NOVO_PROMPT)
                 between == SubSeq(text, m + 1, n - 1)
             IN /\ last.improvements = bullets(between)
                /\ last.new_prompt = strip(SubSeq(text, n + 1, Len(text)))
        ELSE /\ last.new_prompt = text
             /\ Len(last.improvements) = 1

\* C27: delete_session(id) returns without raising in every state of the
\* log, also with no current session; when no session has the id, the log
\* is left as it was and nothing is written.
C27_DeleteNeverRaises ==
    last.op = "delete_session" =>
        /\ ~last.raised
        /\ last.session_id \notin session_ids(last.pre) =>
               /\ sessions = last.pre
               /\ current_session_index = last.pre_index
               /\ conversations_file = last.pre_file

\* C29: a pass does not select an unprocessed entry that is outside the
\* most recent recent_count entries when it runs; entries are only appended,
\* so with the same window no later pass selects it either.
C29_OutsideWindowNotSelected ==
    last.op = "pass" =>
        /\ \A i \in 1..Len(last.fb_before) :
               i \notin most_recent(last.fb_before, last.recent_count) =>
                   /\ i \notin last.selected
                   /\ feedbacks[i].processed = last.fb_before[i].processed
        /\ Len(feedbacks) = Len(last.fb_before)

\* C25: when the chatbot fails on a user message, the user's turn is in the
\* log all the same: it was appended and written before the chatbot was
\* called, and the failure shows only in the assistant turn that follows
\* it, which carries the error text.
C25_UserTurnSurvivesFailure ==
    (last.op = "chat" /\ last.failed) =>
        LET user_turn == message_of("user", last.user_input, <<>>, "")
            error_turn == message_of("assistant", ERROR_RESPONSE, <<>>, "")
        IN
        /\ \E k \in 1..Len(last.at_call.sessions) :
               /\ last.at_call.sessions[k].messages =
                      Append(last.pre[k].messages, user_turn)
        /\ last.at_call.file = save_conversations(last.at_call.sessions)
        /\ \E k \in 1..Len(sessions) :
               /\ sessions[k].messages =
                      last.pre[k].messages \o <<user_turn, error_turn>>
        /\ conversations_file = save_conversations(sessions)

\* C28: the feedback submission of the page never runs the improvement
\* pass, because what add_feedback returns has no auto_process: after any
\* chat turns and submissions no entry is processed (pending = total) and
\* the current prompt version is the one of startup.
C28_SubmissionNeverImproves ==
    /\ \A i \in 1..Len(feedbacks) : ~feedbacks[i].processed
    /\ \A i \in 1..Len(load_feedbacks(feedbacks_file)) :
           ~load_feedbacks(feedbacks_file)[i].processed
    /\ get_statistics(feedbacks).pending_feedbacks =
           get_statistics(feedbacks).total_feedbacks
    /\ passes = 0
    /\ get_current_version(prompts_history) = 1
    /\ get_current_prompt(prompts_history) = DEFAULT_PROMPT
    /\ last.op = "submit_feedback" =>
           /\ ~last.auto
           /\ feedbacks = Append(last.fb_before, last.ret)
           /\ prompts_history = incremented_history(last.ph_before)

C28_Witness ==
    /\ last.op = "submit_feedback"
    /\ Len(feedbacks) = MaxFeedbackCount
    /\ prompts_history[1].feedback_count = MaxFeedbackCount
    /\ \E k \in 1..Len(sessions) : Len(sessions[k].messages) >= 2

\* C30: with two app sessions on one data directory, what one of them
\* wrote stays in the files through the writes of the other: every feedback
\* entry, every turn and every prompt version in a file is still in it
\* after the next write, and the ids and version numbers in the files are
\* unique.
C30_WritesOfOneSurviveTheOther ==
    [][/\ \A i \in 1..Len(load_feedbacks(feedbacks_file)) :
             \E j \in 1..Len(load_feedbacks(feedbacks_file')) :
                /\ load_feedbacks(feedbacks_file')[j].id =
                       load_feedbacks(feedbacks_file)[i].id
                /\ load_feedbacks(feedbacks_file')[j].rating =
                       load_feedbacks(feedbacks_file)[i].rating
       /\ \A i \in 1..Len(load_prompts(prompts_file)) :
             \E j \in 1..Len(load_prompts(prompts_file')) :
                /\ load_prompts(prompts_file')[j].version =
                       load_prompts(prompts_file)[i].version
                /\ load_prompts(prompts_file')[j].prompt =
                       load_prompts(prompts_file)[i].prompt
       /\ \A k \in 1..Len(load_conversations(conversations_file)) :
             \E j \in 1..Len(load_conversations(conversations_file')) :
                LET old == load_conversations(conversations_file)[k]
                    new == load_conversations(conversations_file')[j]
                IN /\ new.session_id = old.session_id
                   /\ Len(new.messages) >= Len(old.messages)
                   /\ SubSeq(new.messages, 1, Len(old.messages)) = old.messages
       /\ \A i, j \in 1..Len(load_feedbacks(feedbacks_file')) :
             load_feedbacks(feedbacks_file')[i].id =
                 load_feedbacks(feedbacks_file')[j].id => i = j
       /\ \A i, j \in 1..Len(load_prompts(prompts_file')) :
             load_prompts(prompts_file')[i].version =
                 load_prompts(prompts_file')[j].version => i = j
      ]_vars

====
